---- MODULE Spec2Model ----
(***************************************************************************)
(* A model of python-mrz-scanner-sdk:                                      *)
(*   - check(lines), the document-type cascade of the examples and of      *)
(*     test.py (SpecCheck);                                                *)
(*   - the thread-pool camera loop of examples/camera/app.py (SpecPool);   *)
(*   - MyIntermediateResultReceiver, the per-hash store of intermediate    *)
(*     results of examples/official/mrz_scanner_gui.py, as an API          *)
(*     (SpecStore) and as it is driven by the window and by                *)
(*     CameraCaptureThread (SpecGui);                                      *)
(*   - MrzResult.__init__ of mrzscanner/__init__.py (SpecResult).          *)
(* Each specification moves its own variables and leaves the others at    *)
(* their initial values.                                                   *)
(***************************************************************************)
EXTENDS Integers, Sequences, FiniteSets, TLC

VARIABLES
    \* ---- check(lines) ----
    lib,            \* what the mrz library has answered so far, per line set and checker
    chk_pc,         \* "idle" | "run" | "raised"
    chk_lines,      \* the argument of the running (or last) call
    chk_k,          \* position in the cascade, 1..6
    consulted,      \* checkers constructed by the running (or last) call, in order
    chk_ret,        \* value returned by the last call, "none" while running
    chk_log,        \* history: <<[lines, ret]>> of the calls that returned
    \* ---- camera loop of examples/camera/app.py ----
    threadn,        \* the concurrency bound
    mrzTasks,       \* deque of AsyncResult: [id, ready, res, err]
    loop_pc,        \* "open" | "noopen" | "read" | "drain" | "submit" | "show" | "done" | "crashed"
    frame,          \* the frame of this iteration: its number, 0 for None
    captured,       \* frames cap.read() has returned
    submitted,      \* frames handed to pool.apply_async
    dropped,        \* frames that found no free slot
    completed,      \* process_frame calls that have returned
    drained,        \* ids of the tasks popped, in pop order
    reported,       \* errors printed by process_frame
    \* ---- MyIntermediateResultReceiver ----
    unit_groups,    \* per receiver: hash -> NeededResultUnit or NoUnit
    registered,     \* receivers registered on the intermediate result manager
    epoch,          \* per receiver: the number of clear() calls so far
    query,          \* the last get_portrait_zone call: [rcv, hash, called, args, ret, epoch]
    \* ---- the window and CameraCaptureThread ----
    win_pc,         \* "idle" | "stopping" | "image" | "pdf" | "closed"
    cam_pc,         \* "off" | "start" | "loop" | "capture" | "ended"
    running,        \* CameraCaptureThread.running
    cur,            \* the capture in progress: [h, fid, by] or NoCapture
    pages,          \* pages left in a capture_multi_pages call
    nframes,        \* frames and images handed to the router so far
    cam_open,       \* the thread's cap.isOpened(): "unknown" | "ok" | "failed"
    cam_read,       \* the thread has read a frame
    emitted,        \* error_occurred signals the thread has emitted
    err_pending,    \* error_occurred signals queued for the window
    nrunning,       \* history: CameraCaptureThreads started whose run has not returned
    \* ---- MrzResult ----
    item,           \* the ParsedResultItem: [code_type, fields]
    mrz,            \* the MrzResult built from it, or NoResult
    \* ---- MrzScanner, the asynchronous API ----
    receiver,       \* MrzScanner.receiver: 0 for None, else the listener's number
    router_rcvs,    \* result receivers registered on cvr_instance
    capturing,      \* the router is between start_capturing and stop_capturing
    buffer,         \* the fetcher's image buffer: <<[id, qadded]>>
    inproc,         \* the frame the router is working on, or NoFrame
    invoked,        \* history: the listener invocations, in order
    nadded,         \* addAsyncListener calls so far
    nclears,        \* clearAsyncListener calls so far, counted up to 2
    nqueued,        \* frames queued so far
    released,       \* listeners added before the last clearAsyncListener returned
    last_op,        \* the last operation on the scanner
    \* ---- callbacks of MyIntermediateResultReceiver on the router's threads ----
    cb,             \* per thread: [pc, unit, missing], where its callback stands
    recorded,       \* history: the units whose callback has returned
    ncb,            \* history: callbacks entered
    \* ---- MrzScanner.decode / on_captured_result_received ----
    dec_pc,         \* "idle" | "loop" | "returned" | "raised"
    dec_in,         \* the captured result: [fn, ok, items, parsed_items]
    dec_i,          \* the loop variable i, from 0
    dec_out,        \* output, a sequence of MrzResult: [parsed, location]
    \* ---- a check digit of the Document Checker ----
    ck_span,        \* the characters the check digit covers, <<>> before a field is read
    ck_digit,       \* the check digit embedded in the line
    ck_status,      \* "none" | "VALID" | "FAILED"
    ck_before,      \* history: the status before a digit was replaced, "none" if none was
    \* ---- camera loop of examples/camera/app_async_api.py ----
    g_results,      \* the global: NoResults for None, or the list the listener got last
    mail_pc,        \* "read" | "test" | "take" | "show" | "done" | "crashed"
    mail_image,     \* image of this iteration is not None
    mail_frames,    \* cap.read() calls
    mail_queued,    \* frames handed to decodeMatAsync
    mail_k,         \* history: calls of the listener
    mail_log,       \* history: the lists the loop iterated over, by number
    \* ---- file list of MRZScannerWindow ----
    file_list,      \* the number of files in self.file_list (file i is at index i)
    current_file_index,
    nav_ops,        \* history: operations on the list
    nav_last        \* history: the last operation, [op, from, processed]

vars == <<lib, chk_pc, chk_lines, chk_k, consulted, chk_ret, chk_log,
          threadn, mrzTasks, loop_pc, frame, captured, submitted, dropped,
          completed, drained, reported,
          unit_groups, registered, epoch, query,
          win_pc, cam_pc, running, cur, pages, nframes,
          cam_open, cam_read, emitted, err_pending, nrunning,
          item, mrz,
          receiver, router_rcvs, capturing, buffer, inproc, invoked, nadded,
          nclears, nqueued, released, last_op,
          cb, recorded, ncb,
          dec_pc, dec_in, dec_i, dec_out,
          ck_span, ck_digit, ck_status, ck_before,
          g_results, mail_pc, mail_image, mail_frames, mail_queued, mail_k, mail_log,
          file_list, current_file_index, nav_ops, nav_last>>

checkVars == <<lib, chk_pc, chk_lines, chk_k, consulted, chk_ret, chk_log>>
poolVars == <<threadn, mrzTasks, loop_pc, frame, captured, submitted, dropped,
              completed, drained, reported>>
storeVars == <<unit_groups, registered, epoch, query>>
guiVars == <<win_pc, cam_pc, running, cur, pages, nframes>>
sigVars == <<cam_open, cam_read, emitted, err_pending, nrunning>>
resultVars == <<item, mrz>>
asyncVars == <<receiver, router_rcvs, capturing, buffer, inproc, invoked, nadded,
               nclears, nqueued, released, last_op>>
raceVars == <<cb, recorded, ncb>>
decVars == <<dec_pc, dec_in, dec_i, dec_out>>
ckVars == <<ck_span, ck_digit, ck_status, ck_before>>
mailVars == <<g_results, mail_pc, mail_image, mail_frames, mail_queued, mail_k, mail_log>>
navVars == <<file_list, current_file_index, nav_ops, nav_last>>
lateVars == <<ckVars, mailVars, navVars>>
earlyVars == <<checkVars, poolVars, storeVars, guiVars, sigVars, resultVars, asyncVars,
               raceVars, decVars>>
restVars == <<asyncVars, raceVars, decVars, lateVars>>

\* A function with exactly one element changed (an EXCEPT that also reads well
\* for functions of strings).
Upd(f, x, v) == [y \in DOMAIN f |-> IF y = x THEN v ELSE f[y]]

(***************************************************************************)
(* check(lines): examples/camera/app.py 17-53, the same text in test.py,   *)
(* app_async_api.py and the other examples.                                *)
(***************************************************************************)

\* The Line Sets the calls are made on.  The checkers are the mrz library's:
\* what a checker answers on a line set is the library's business, and a
\* deterministic one: the answer is drawn when the checker first sees the
\* line set and is the same ever after (lib).
LineSets == {"L1", "L2"}

\* Calls of check() in one behaviour.
MaxCalls == 3

\* What one try block can do: the constructor, bool() and fields() all
\* returned and bool() was True ("match"); bool() was False ("reject"); or
\* one of the three raised an Exception ("raise").
Outcomes == {"match", "reject", "raise"}

\* The string check() returns when no checker matched.
NoMatch == [tag |-> "No valid MRZ information found", fields |-> <<>>]

\* No call has returned yet.
NoReturn == [tag |-> "none", fields |-> <<>>]

\* The cascade mutated: TD3 tried before TD2.
CheckerOrderSwapped == <<"TD1", "TD3", "TD2", "MRVA", "MRVB">>

\* The five try blocks, top to bottom.
CheckerOrder == <<"TD1", "TD2", "TD3", "MRVA", "MRVB">>

Checkers == {"TD1", "TD2", "TD3", "MRVA", "MRVB"}

\* Line Sets of a known shape: 3 lines of 30 characters, 2 lines of 44.
ShapedLineSets == {"3x30", "2x44"}

AllLineSets == LineSets \cup ShapedLineSets

\* The shape a layout's checker accepts, as the specification gives it: TD1
\* is 3x30, TD3 and MRVA are 2x44, TD2 and MRVB share a third shape.
LayoutShape(c) ==
    CASE c = "TD1" -> "3x30"
      [] c \in {"TD3", "MRVA"} -> "2x44"
      [] c \in {"TD2", "MRVB"} -> "other"

\* The answers mutated: a checker does not look at the shape.
AnswersAnyShape(c, ls) == Outcomes

\* What a checker may answer on a line set: anything on lines of its own
\* shape or of a shape not known; on lines of another shape it does not
\* match (it rejects, or raises on the length).
Answers(c, ls) ==
    IF ls \in ShapedLineSets /\ LayoutShape(c) # ls
    THEN Outcomes \ {"match"}
    ELSE Outcomes

\* The handler mutated: the exception leaves check().
ExceptHandlerReraise == "propagate"

\* except Exception as err: pass -- control falls to the next try block.
ExceptHandler == "next"

\* The block mutated: a match does not return, the next block is tried.
AfterTryFallsThrough(o) == "next"

\* What check() does after the try block of a checker whose outcome is o.
AfterTry(o) ==
    CASE o = "match" -> "return"
      [] o = "reject" -> "next"
      [] o = "raise" -> ExceptHandler

\* The cascade mutated: a call resumes where the previous one stopped.
FirstTryStale == IF chk_k \in 1..5 THEN chk_k ELSE 1

\* A call starts at the first try block whatever happened before: check()
\* has no global and no default argument, its checker objects are locals.
FirstTry == 1

\* The return mutated: the tag of the block copied from is returned.
MatchedTagCopied(c, ls) == [tag |-> "TD2", fields |-> <<c, ls>>]

\* return "TD1", td1_check.fields(): the tag and that checker's fields of
\* these lines.
Matched(c, ls) == [tag |-> c, fields |-> <<c, ls>>]

InitCheck ==
    /\ lib = [ls \in AllLineSets |-> [c \in Checkers |-> "unknown"]]
    /\ chk_pc = "idle"
    /\ chk_lines = "none"
    /\ chk_k = 0
    /\ consulted = <<>>
    /\ chk_ret = NoReturn
    /\ chk_log = <<>>

\* check(lines) is called.
CallCheck ==
    /\ chk_pc = "idle"
    /\ Len(chk_log) < MaxCalls
    /\ \E ls \in LineSets : chk_lines' = ls
    /\ chk_pc' = "run"
    /\ chk_k' = FirstTry
    /\ consulted' = <<>>
    /\ chk_ret' = NoReturn
    /\ UNCHANGED <<lib, chk_log>>
    /\ UNCHANGED <<poolVars, storeVars, guiVars, sigVars, resultVars, restVars>>

\* One try block: the checker is constructed on the lines and answers.
TryChecker ==
    /\ chk_pc = "run"
    /\ chk_k \in 1..5
    /\ LET c == CheckerOrder[chk_k] IN
       \E o \in Answers(c, chk_lines) :
          /\ lib[chk_lines][c] \in {"unknown", o}
          /\ lib' = Upd(lib, chk_lines, Upd(lib[chk_lines], c, o))
          /\ consulted' = Append(consulted, c)
          /\ CASE AfterTry(o) = "return" ->
                    /\ chk_ret' = Matched(c, chk_lines)
                    /\ chk_pc' = "idle"
                    /\ chk_log' = Append(chk_log, [lines |-> chk_lines, ret |-> chk_ret'])
                    /\ UNCHANGED chk_k
               [] AfterTry(o) = "next" ->
                    /\ chk_k' = chk_k + 1
                    /\ UNCHANGED <<chk_ret, chk_pc, chk_log>>
               [] AfterTry(o) = "propagate" ->
                    /\ chk_pc' = "raised"
                    /\ UNCHANGED <<chk_ret, chk_k, chk_log>>
    /\ UNCHANGED chk_lines
    /\ UNCHANGED <<poolVars, storeVars, guiVars, sigVars, resultVars, restVars>>

\* return 'No valid MRZ information found'
ReturnNoMatch ==
    /\ chk_pc = "run"
    /\ chk_k = 6
    /\ chk_ret' = NoMatch
    /\ chk_pc' = "idle"
    /\ chk_log' = Append(chk_log, [lines |-> chk_lines, ret |-> NoMatch])
    /\ UNCHANGED <<lib, chk_lines, chk_k, consulted>>
    /\ UNCHANGED <<poolVars, storeVars, guiVars, sigVars, resultVars, restVars>>

NextCheck ==
    \/ CallCheck
    \/ TryChecker
    \/ ReturnNoMatch

\* check(lines) is called on lines of a known shape.
CallCheckShaped ==
    /\ chk_pc = "idle"
    /\ Len(chk_log) < MaxCalls
    /\ \E ls \in ShapedLineSets : chk_lines' = ls
    /\ chk_pc' = "run"
    /\ chk_k' = FirstTry
    /\ consulted' = <<>>
    /\ chk_ret' = NoReturn
    /\ UNCHANGED <<lib, chk_log>>
    /\ UNCHANGED <<poolVars, storeVars, guiVars, sigVars, resultVars, restVars>>

NextShape ==
    \/ CallCheckShaped
    \/ TryChecker
    \/ ReturnNoMatch

(***************************************************************************)
(* The camera loop of examples/camera/app.py, 89-121, and process_frame,   *)
(* 55-62, which the pool's threads run.                                    *)
(***************************************************************************)

\* Frames the camera is asked for in one behaviour.
MaxFrames == 4

\* The values threadn is given: 1 as line 89 is written, more with the
\* cv2.getNumberOfCPUs() of its comment.
MaxThreadn == 2

\* What scanner.decodeMat does in process_frame: it raises, or returns an
\* empty list or a list of MrzResult.
DecodeOutcomes == {"raise", "Empty", "Lines"}

\* The except clause mutated: the error is raised again, and AsyncResult.get()
\* raises it in the loop.
FailedResultReraised == "Raise"

\* results = None ... except Exception as err: print(err) ... return results
FailedResult == "None"

\* process_frame(frame), decodeMat doing o.
process_frame(o) == IF o = "raise" THEN FailedResult ELSE o

\* What a finished process_frame returned: None after decodeMat raised (the
\* error is printed), an empty list, or a list of MrzResult.
TaskResults == {process_frame(o) : o \in DecodeOutcomes}

\* What the loop does with the popped results: .get() raises what the task
\* raised; None is skipped; for a list, every result's .text is read, which
\* MrzResult does not have, so that a list that is not empty raises (as
\* drawContours does on a frame that is None).  An exception leaves the loop
\* for the outer except, which prints it and exits.
DrainRaises(res) == res \in {"Raise", "Lines"}

\* The guard mutated: every frame is queued.
SlotFreeAlways == TRUE

\* The guard mutated: one task too many.
SlotFreeOffByOne == Len(mrzTasks) <= threadn

\* if len(mrzTasks) < threadn:
SlotFree == Len(mrzTasks) < threadn

\* The condition mutated: any task of the deque being ready will do.
HeadReadyAnyTask == \E i \in 1..Len(mrzTasks) : mrzTasks[i].ready

\* while len(mrzTasks) > 0 and mrzTasks[0].ready():
HeadReady == Len(mrzTasks) > 0 /\ mrzTasks[1].ready

InitPool ==
    /\ threadn \in 1..MaxThreadn
    /\ mrzTasks = <<>>
    /\ loop_pc = "open"
    /\ frame = 0
    /\ captured = 0
    /\ submitted = 0
    /\ dropped = 0
    /\ completed = 0
    /\ drained = <<>>
    /\ reported = 0

\* cap = cv2.VideoCapture(0); if not cap.isOpened(): print("Cannot open
\* camera"); exit(1).
OpenCamera ==
    /\ loop_pc = "open"
    /\ \E opened \in BOOLEAN : loop_pc' = IF opened THEN "read" ELSE "noopen"
    /\ UNCHANGED <<threadn, mrzTasks, frame, captured, submitted, dropped, completed,
                   drained, reported>>
    /\ UNCHANGED <<checkVars, storeVars, guiVars, sigVars, resultVars, restVars>>

\* ret, frame = cap.read(): a frame, or (False, None).
Read ==
    /\ loop_pc = "read"
    /\ captured < MaxFrames
    /\ \/ /\ captured' = captured + 1
          /\ frame' = captured'
       \/ /\ frame' = 0
          /\ UNCHANGED captured
    /\ loop_pc' = "drain"
    /\ UNCHANGED <<threadn, mrzTasks, submitted, dropped, completed, drained, reported>>
    /\ UNCHANGED <<checkVars, storeVars, guiVars, sigVars, resultVars, restVars>>

\* One turn of the inner while: the head task is ready, is popped and its
\* results are gone through.
DrainOne ==
    /\ loop_pc = "drain"
    /\ HeadReady
    /\ drained' = Append(drained, mrzTasks[1].id)
    /\ mrzTasks' = Tail(mrzTasks)
    /\ loop_pc' = IF DrainRaises(mrzTasks[1].res) THEN "crashed" ELSE "drain"
    /\ UNCHANGED <<threadn, frame, captured, submitted, dropped, completed, reported>>
    /\ UNCHANGED <<checkVars, storeVars, guiVars, sigVars, resultVars, restVars>>

\* The inner while ends: the deque is empty or its head is still running.
DrainEnd ==
    /\ loop_pc = "drain"
    /\ ~HeadReady
    /\ loop_pc' = "submit"
    /\ UNCHANGED <<threadn, mrzTasks, frame, captured, submitted, dropped, completed,
                   drained, reported>>
    /\ UNCHANGED <<checkVars, storeVars, guiVars, sigVars, resultVars, restVars>>

\* if len(mrzTasks) < threadn: pool.apply_async(process_frame, (frame.copy(), ))
\* frame.copy() raises on None.  No else branch: the frame is only shown.
Submit ==
    /\ loop_pc = "submit"
    /\ IF SlotFree
       THEN IF frame = 0
            THEN /\ loop_pc' = "crashed"
                 /\ UNCHANGED <<mrzTasks, submitted, dropped>>
            ELSE /\ mrzTasks' = Append(mrzTasks, [id |-> frame, ready |-> FALSE, res |-> "pending", err |-> FALSE])
                 /\ submitted' = submitted + 1
                 /\ loop_pc' = "show"
                 /\ UNCHANGED dropped
       ELSE /\ dropped' = IF frame = 0 THEN dropped ELSE dropped + 1
            /\ loop_pc' = "show"
            /\ UNCHANGED <<mrzTasks, submitted>>
    /\ UNCHANGED <<threadn, frame, captured, completed, drained, reported>>
    /\ UNCHANGED <<checkVars, storeVars, guiVars, sigVars, resultVars, restVars>>

\* cv2.imshow('MRZ Scanner', frame) raises on None; ch = cv2.waitKey(1);
\* if ch == 27: break
Show ==
    /\ loop_pc = "show"
    /\ IF frame = 0
       THEN loop_pc' = "crashed"
       ELSE \E esc \in BOOLEAN : loop_pc' = IF esc THEN "done" ELSE "read"
    /\ UNCHANGED <<threadn, mrzTasks, frame, captured, submitted, dropped, completed,
                   drained, reported>>
    /\ UNCHANGED <<checkVars, storeVars, guiVars, sigVars, resultVars, restVars>>

\* A pool thread finishes process_frame(frame) for a queued task: decodeMat
\* returned, or raised and the error was printed and None returned.
WorkerComplete ==
    /\ \E i \in 1..Len(mrzTasks) :
          /\ ~mrzTasks[i].ready
          /\ \E o \in DecodeOutcomes :
                /\ mrzTasks' = [mrzTasks EXCEPT ![i] = [id |-> mrzTasks[i].id,
                                                         ready |-> TRUE,
                                                         res |-> process_frame(o),
                                                         err |-> o = "raise"]]
                /\ reported' = IF o = "raise" THEN reported + 1 ELSE reported
    /\ completed' = completed + 1
    /\ UNCHANGED <<threadn, loop_pc, frame, captured, submitted, dropped, drained>>
    /\ UNCHANGED <<checkVars, storeVars, guiVars, sigVars, resultVars, restVars>>

NextPool ==
    \/ OpenCamera
    \/ Read
    \/ DrainOne
    \/ DrainEnd
    \/ Submit
    \/ Show
    \/ WorkerComplete

(***************************************************************************)
(* MyIntermediateResultReceiver, examples/official/mrz_scanner_gui.py      *)
(* 59-129: unit_groups maps the hash id of an original image to the        *)
(* NeededResultUnit that collects its intermediate results.                *)
(***************************************************************************)

\* The hash ids original images have.
Hashes == {"hA", "hB"}

\* window.irr, created in _init_sdk, and CameraCaptureThread.irr, created in
\* run.
Receivers == {"win", "cam"}

\* clear() calls on one receiver in one behaviour.
MaxClears == 2

\* The five attributes of NeededResultUnit.
Kinds == {"deskewed_image_unit", "localized_text_lines_unit", "scaled_colour_img_unit",
          "detected_quads_unit", "recognized_text_lines_unit"}

\* None, where a unit or a NeededResultUnit is expected.
NoUnit == [none |-> TRUE]

\* NeededResultUnit(): every attribute None.
NeededResultUnit == [k \in Kinds |-> NoUnit]

\* An intermediate result unit: the hash id of its original image
\* (get_original_image_hash_id), its kind, and two marks the code never reads:
\* fid, the number of the capture that produced it, and at, the number of
\* clear() calls the receiver had seen when the callback ran.
Unit(h, kind, fid, at) == [h |-> h, kind |-> kind, fid |-> fid, at |-> at]

\* The body mutated: a fresh NeededResultUnit replaces the one in place.
StoreUnitReplace(ug, kind, result) ==
    Upd(ug, result.h, Upd(NeededResultUnit, kind, result))

\* id = result.get_original_image_hash_id()
\* if self.unit_groups.get(id) is None: self.unit_groups[id] = NeededResultUnit()
\* self.unit_groups[id].<kind> = result
StoreUnit(ug, kind, result) ==
    LET id == result.h
        g == IF ug[id] = NoUnit THEN NeededResultUnit ELSE ug[id]
    IN Upd(ug, id, Upd(g, kind, result))

on_deskewed_image_received(ug, result, section) ==
    IF section THEN StoreUnit(ug, "deskewed_image_unit", result) ELSE ug

on_localized_text_lines_received(ug, result, section) ==
    IF section THEN StoreUnit(ug, "localized_text_lines_unit", result) ELSE ug

\* The one callback that does not look at info.is_section_level_result.
on_scaled_colour_image_unit_received(ug, result, section) ==
    StoreUnit(ug, "scaled_colour_img_unit", result)

on_recognized_text_lines_received(ug, result, section) ==
    IF section THEN StoreUnit(ug, "recognized_text_lines_unit", result) ELSE ug

on_detected_quads_received(ug, result, section) ==
    IF section THEN StoreUnit(ug, "detected_quads_unit", result) ELSE ug

\* The callback the router invokes for a unit of this kind.
Callback(ug, result, section) ==
    CASE result.kind = "deskewed_image_unit" -> on_deskewed_image_received(ug, result, section)
      [] result.kind = "localized_text_lines_unit" -> on_localized_text_lines_received(ug, result, section)
      [] result.kind = "scaled_colour_img_unit" -> on_scaled_colour_image_unit_received(ug, result, section)
      [] result.kind = "recognized_text_lines_unit" -> on_recognized_text_lines_received(ug, result, section)
      [] result.kind = "detected_quads_unit" -> on_detected_quads_received(ug, result, section)

\* self.unit_groups.clear()
clear(ug) == [h \in Hashes |-> NoUnit]

\* The hash ids that have a bundle: the keys of the dict.
Keys(ug) == {h \in Hashes : ug[h] # NoUnit}

\* IdentityProcessor.find_portrait_zone is the SDK's.  It answers through its
\* return code: EC_OK with a zone, or another code; EC_OK needs the units it
\* is given to be there.
Complete(units) == \A k \in Kinds : units[k] # NoUnit

FinderCodes(units) == IF Complete(units) THEN {"EC_OK", "EC_FAILED"} ELSE {"EC_FAILED"}

NoQuery == [rcv |-> "none", hash |-> "none", called |-> FALSE, args |-> NoUnit,
            ret |-> "none"]

\* The lookup mutated: a miss falls back on some bundle that is there.
LookupAny(ug, hash_id) ==
    IF ug[hash_id] # NoUnit THEN ug[hash_id]
    ELSE IF Keys(ug) # {} THEN ug[CHOOSE h \in Keys(ug) : TRUE] ELSE NoUnit

\* self.unit_groups.get(hash_id)
Lookup(ug, hash_id) == ug[hash_id]

\* The result mutated: the zone is returned whatever the code says.
PortraitResultIgnoresCode(code) == "zone"

\* if ret != EnumErrorCode.EC_OK: return None
\* return portrait_zone
PortraitResult(code) == IF code # "EC_OK" THEN "None" ELSE "zone"

\* get_portrait_zone(hash_id) on receiver r, the finder answering code: what
\* the call did, as a record (whether the finder was called, with which
\* units, and what was returned).
get_portrait_zone(r, ug, hash_id, code) ==
    IF Lookup(ug, hash_id) = NoUnit
    THEN [rcv |-> r, hash |-> hash_id, called |-> FALSE, args |-> NoUnit, ret |-> "None"]
    ELSE [rcv |-> r, hash |-> hash_id, called |-> TRUE, args |-> Lookup(ug, hash_id),
          ret |-> PortraitResult(code)]

\* The codes the finder may answer a get_portrait_zone(hash_id) with.
CodesFor(ug, hash_id) ==
    IF Lookup(ug, hash_id) = NoUnit THEN {"EC_FAILED"} ELSE FinderCodes(Lookup(ug, hash_id))

InitStore ==
    /\ unit_groups = [r \in Receivers |-> [h \in Hashes |-> NoUnit]]
    /\ registered = {"win"}
    /\ epoch = [r \in Receivers |-> 0]
    /\ query = NoQuery

\* One of the five on_*_received callbacks runs on the window's receiver.
OnReceived ==
    /\ \E h \in Hashes, k \in Kinds, section \in BOOLEAN :
          unit_groups' = Upd(unit_groups, "win",
                             Callback(unit_groups["win"], Unit(h, k, 0, epoch["win"]), section))
    /\ query' = NoQuery
    /\ UNCHANGED <<registered, epoch>>
    /\ UNCHANGED <<checkVars, poolVars, guiVars, sigVars, resultVars, restVars>>

\* clear() on the window's receiver.
Clear ==
    /\ epoch["win"] < MaxClears
    /\ unit_groups' = Upd(unit_groups, "win", clear(unit_groups["win"]))
    /\ epoch' = Upd(epoch, "win", epoch["win"] + 1)
    /\ query' = NoQuery
    /\ UNCHANGED registered
    /\ UNCHANGED <<checkVars, poolVars, guiVars, sigVars, resultVars, restVars>>

\* get_portrait_zone(h) on the window's receiver.
GetPortraitZone ==
    /\ \E h \in Hashes :
          \E code \in CodesFor(unit_groups["win"], h) :
             query' = get_portrait_zone("win", unit_groups["win"], h, code)
    /\ UNCHANGED <<unit_groups, registered, epoch>>
    /\ UNCHANGED <<checkVars, poolVars, guiVars, sigVars, resultVars, restVars>>

NextStore ==
    \/ OnReceived
    \/ Clear
    \/ GetPortraitZone

(***************************************************************************)
(* The window and CameraCaptureThread of mrz_scanner_gui.py.  Both hand    *)
(* images to the one CaptureVisionRouter; while a capture runs the router  *)
(* calls the on_*_received callbacks of every receiver registered on its   *)
(* intermediate result manager.  The window processes an image only with   *)
(* the camera stopped: the widgets that load one are hidden in camera      *)
(* mode, and a drop changes the source first, which stops the camera.      *)
(***************************************************************************)

\* Images and frames handed to the router in one behaviour.
MaxImages == 3

\* Pages of one capture_multi_pages call.
MaxPages == 2

\* error_occurred signals the window has not handled yet.
MaxPending == 1

\* The kinds of unit the router produces in SpecGui (all five are recorded
\* in SpecStore).
GuiKinds == {"scaled_colour_img_unit", "recognized_text_lines_unit"}

NoCapture == [h |-> "none", fid |-> 0, h0 |-> "none"]

\* What a capture came to: it raised, returned None, returned a result with
\* no parsed result, with parsed items none of which is a passport, or with
\* a passport among them.
CaptureResults == {"raise", "None", "noparsed", "other", "passport"}

InitGui ==
    /\ win_pc = "idle"
    /\ cam_pc = "off"
    /\ running = FALSE
    /\ cur = NoCapture
    /\ pages = 0
    /\ nframes = 0
    /\ cam_open = "unknown"
    /\ cam_read = FALSE
    /\ emitted = 0
    /\ err_pending = 0
    /\ nrunning = 0

\* The router calls the callback of a unit of the image being captured on
\* every registered receiver.
Deliver ==
    /\ cur # NoCapture
    /\ \E k \in GuiKinds, section \in BOOLEAN :
          unit_groups' = [r \in Receivers |->
                            IF r \in registered
                            THEN Callback(unit_groups[r], Unit(cur.h, k, cur.fid, epoch[r]), section)
                            ELSE unit_groups[r]]
    /\ UNCHANGED <<registered, epoch, query>>
    /\ UNCHANGED guiVars
    /\ UNCHANGED sigVars
    /\ UNCHANGED <<checkVars, poolVars, resultVars, restVars>>

\* _extract_mrz_results / the loop of _process_frame: get_portrait_zone for a
\* passport item, nothing otherwise.
QueryAfter(r, res, h) ==
    IF res = "passport"
    THEN \E code \in CodesFor(unit_groups[r], h) :
            query' = get_portrait_zone(r, unit_groups[r], h, code)
    ELSE query' = NoQuery

\* if not cap.isOpened(): error_occurred.emit(...); return, mutated: the
\* receiver is set up before the camera is looked at.
RegisteredAfterOpenFailureLeaked == registered \cup {"cam"}

\* run returns before it sets up its receiver.
RegisteredAfterOpenFailure == registered

\* return
AfterOpenFailure == "ended"

\* The test mutated: the button starts a thread whatever camera_thread is.
MayStartAlways == TRUE

\* if self.camera_thread is None or not self.camera_thread.isRunning():
MayStart == cam_pc \in {"off", "ended"}

\* _on_start_stop_clicked with no thread running -> _start_camera: a new
\* CameraCaptureThread is started (or no valid camera is selected).
StartCamera ==
    /\ win_pc = "idle"
    /\ MayStart
    /\ err_pending < MaxPending
    /\ \/ /\ cam_pc' = "start"
          /\ running' = FALSE
          /\ cam_open' = "unknown"
          /\ cam_read' = FALSE
          /\ emitted' = 0
          /\ nrunning' = nrunning + 1
       \/ UNCHANGED <<cam_pc, running, cam_open, cam_read, emitted, nrunning>>
    /\ UNCHANGED <<win_pc, cur, pages, nframes, err_pending>>
    /\ UNCHANGED storeVars
    /\ UNCHANGED <<checkVars, poolVars, resultVars, restVars>>

\* CameraCaptureThread.run up to the loop: running = True, then the camera
\* opens and the thread registers a receiver of its own, or it does not open
\* and run emits error_occurred and returns.
CamRun ==
    /\ cam_pc = "start"
    /\ running' = TRUE
    /\ \/ /\ cam_open' = "ok"
          /\ cam_pc' = "loop"
          /\ registered' = registered \cup {"cam"}
          /\ unit_groups' = Upd(unit_groups, "cam", [h \in Hashes |-> NoUnit])
          /\ UNCHANGED <<emitted, err_pending, nrunning>>
       \/ /\ cam_open' = "failed"
          /\ nrunning' = nrunning - 1
          /\ emitted' = emitted + 1
          /\ err_pending' = err_pending + 1
          /\ cam_pc' = AfterOpenFailure
          /\ registered' = RegisteredAfterOpenFailure
          /\ UNCHANGED unit_groups
    /\ UNCHANGED <<epoch, query, win_pc, cur, pages, nframes, cam_read>>
    /\ UNCHANGED <<checkVars, poolVars, resultVars, restVars>>

\* while self.running: cap.read(); if not ret: continue; self.irr.clear();
\* then _process_frame enters cvr.capture(frame).
CamFrame ==
    /\ cam_pc = "loop"
    /\ running
    /\ nframes < MaxImages
    /\ \/ /\ \E h \in Hashes : cur' = [h |-> h, fid |-> nframes + 1, h0 |-> h]
          /\ nframes' = nframes + 1
          /\ unit_groups' = Upd(unit_groups, "cam", clear(unit_groups["cam"]))
          /\ epoch' = Upd(epoch, "cam", epoch["cam"] + 1)
          /\ cam_pc' = "capture"
       \/ UNCHANGED <<cur, nframes, unit_groups, epoch, cam_pc>>
    /\ cam_read' = TRUE
    /\ UNCHANGED <<registered, query, win_pc, running, pages>>
    /\ UNCHANGED <<cam_open, emitted, err_pending, nrunning>>
    /\ UNCHANGED <<checkVars, poolVars, resultVars, restVars>>

\* cvr.capture returns in _process_frame; the results are built and
\* frame_ready is emitted.
CamCaptureEnd ==
    /\ cam_pc = "capture"
    /\ \E res \in CaptureResults : QueryAfter("cam", res, cur.h)
    /\ cur' = NoCapture
    /\ cam_pc' = "loop"
    /\ UNCHANGED <<unit_groups, registered, epoch, win_pc, running, pages, nframes>>
    /\ UNCHANGED sigVars
    /\ UNCHANGED <<checkVars, poolVars, resultVars, restVars>>

\* The while loop finds running False: cap.release(), the receiver is
\* removed and dropped, run returns.
CamExit ==
    /\ cam_pc = "loop"
    /\ ~running
    /\ registered' = registered \ {"cam"}
    /\ unit_groups' = Upd(unit_groups, "cam", [h \in Hashes |-> NoUnit])
    /\ cam_pc' = "ended"
    /\ nrunning' = nrunning - 1
    /\ UNCHANGED <<epoch, query, win_pc, running, cur, pages, nframes>>
    /\ UNCHANGED <<cam_open, cam_read, emitted, err_pending>>
    /\ UNCHANGED <<checkVars, poolVars, resultVars, restVars>>

\* _stop_camera with a thread: stop() sets running False and waits.
StopCamera ==
    /\ win_pc = "idle"
    /\ cam_pc # "off"
    /\ running' = FALSE
    /\ win_pc' = "stopping"
    /\ UNCHANGED <<cam_pc, cur, pages, nframes>>
    /\ UNCHANGED storeVars
    /\ UNCHANGED sigVars
    /\ UNCHANGED <<checkVars, poolVars, resultVars, restVars>>

\* _on_camera_error, the slot of error_occurred, runs in the window's
\* thread: the message is shown and _stop_camera() stops whatever thread
\* camera_thread holds by then.
OnCameraError ==
    /\ win_pc = "idle"
    /\ err_pending > 0
    /\ err_pending' = err_pending - 1
    /\ IF cam_pc # "off"
       THEN /\ running' = FALSE
            /\ win_pc' = "stopping"
       ELSE UNCHANGED <<running, win_pc>>
    /\ UNCHANGED <<cam_pc, cur, pages, nframes, cam_open, cam_read, emitted, nrunning>>
    /\ UNCHANGED storeVars
    /\ UNCHANGED <<checkVars, poolVars, resultVars, restVars>>

\* wait() returns once run has returned; camera_thread = None.
StopJoined ==
    /\ win_pc = "stopping"
    /\ cam_pc = "ended"
    /\ cam_pc' = "off"
    /\ win_pc' = "idle"
    /\ UNCHANGED <<running, cur, pages, nframes>>
    /\ UNCHANGED storeVars
    /\ UNCHANGED sigVars
    /\ UNCHANGED <<checkVars, poolVars, resultVars, restVars>>

\* _process_image: self.irr.clear(), then cvr.capture(image).
ProcessImage ==
    /\ win_pc = "idle"
    /\ cam_pc = "off"
    /\ nframes < MaxImages
    /\ \E h \in Hashes : cur' = [h |-> h, fid |-> nframes + 1, h0 |-> h]
    /\ nframes' = nframes + 1
    /\ unit_groups' = Upd(unit_groups, "win", clear(unit_groups["win"]))
    /\ epoch' = Upd(epoch, "win", epoch["win"] + 1)
    /\ win_pc' = "image"
    /\ UNCHANGED <<registered, query, cam_pc, running, pages>>
    /\ UNCHANGED sigVars
    /\ UNCHANGED <<checkVars, poolVars, resultVars, restVars>>

\* cvr.capture returns in _process_image; _extract_mrz_results.
ImageCaptureEnd ==
    /\ win_pc = "image"
    /\ \E res \in CaptureResults : QueryAfter("win", res, cur.h)
    /\ cur' = NoCapture
    /\ win_pc' = "idle"
    /\ UNCHANGED <<unit_groups, registered, epoch, cam_pc, running, pages, nframes>>
    /\ UNCHANGED sigVars
    /\ UNCHANGED <<checkVars, poolVars, resultVars, restVars>>

\* _process_image_file on a file cv2.imread cannot read: the router captures
\* its pages, capture_multi_pages(file_path, ...).  No clear() here.
ProcessPdf ==
    /\ win_pc = "idle"
    /\ cam_pc = "off"
    /\ nframes < MaxImages
    /\ \E h \in Hashes : cur' = [h |-> h, fid |-> nframes + 1, h0 |-> h]
    /\ \E n \in 1..MaxPages : pages' = n
    /\ nframes' = nframes + 1
    /\ win_pc' = "pdf"
    /\ UNCHANGED <<cam_pc, running>>
    /\ UNCHANGED storeVars
    /\ UNCHANGED sigVars
    /\ UNCHANGED <<checkVars, poolVars, resultVars, restVars>>

\* capture_multi_pages goes on to the next page.
PdfNextPage ==
    /\ win_pc = "pdf"
    /\ pages > 1
    /\ nframes < MaxImages
    /\ \E h \in Hashes : cur' = [h |-> h, fid |-> nframes + 1, h0 |-> cur.h0]
    /\ nframes' = nframes + 1
    /\ pages' = pages - 1
    /\ UNCHANGED <<win_pc, cam_pc, running>>
    /\ UNCHANGED storeVars
    /\ UNCHANGED sigVars
    /\ UNCHANGED <<checkVars, poolVars, resultVars, restVars>>

\* capture_multi_pages returns (or raises); _process_captured_result works
\* on results[0], the first page.
PdfEnd ==
    /\ win_pc = "pdf"
    /\ \E res \in CaptureResults : QueryAfter("win", res, cur.h0)
    /\ cur' = NoCapture
    /\ pages' = 0
    /\ win_pc' = "idle"
    /\ UNCHANGED <<unit_groups, registered, epoch, cam_pc, running, nframes>>
    /\ UNCHANGED sigVars
    /\ UNCHANGED <<checkVars, poolVars, resultVars, restVars>>

\* closeEvent, the camera stopped: the window's receiver is removed.
Close ==
    /\ win_pc = "idle"
    /\ cam_pc = "off"
    /\ registered' = registered \ {"win"}
    /\ win_pc' = "closed"
    /\ UNCHANGED <<unit_groups, epoch, query, cam_pc, running, cur, pages, nframes>>
    /\ UNCHANGED sigVars
    /\ UNCHANGED <<checkVars, poolVars, resultVars, restVars>>

NextGui ==
    \/ Deliver
    \/ StartCamera
    \/ CamRun
    \/ CamFrame
    \/ CamCaptureEnd
    \/ CamExit
    \/ StopCamera
    \/ OnCameraError
    \/ StopJoined
    \/ ProcessImage
    \/ ImageCaptureEnd
    \/ ProcessPdf
    \/ PdfNextPage
    \/ PdfEnd
    \/ Close

\* CameraCaptureThread and the handlers of the window that start and stop
\* it.
NextCam ==
    \/ StartCamera
    \/ CamRun
    \/ CamFrame
    \/ CamCaptureEnd
    \/ CamExit
    \/ StopCamera
    \/ OnCameraError
    \/ StopJoined

\* The same with closeEvent.
NextCamWin ==
    \/ NextCam
    \/ Close

(***************************************************************************)
(* MrzResult.__init__, mrzscanner/__init__.py 164-237: the result built    *)
(* from a ParsedResultItem of the SDK.                                     *)
(***************************************************************************)

\* The fields __init__ asks the item for.
FieldNames == {"passportNumber", "documentNumber", "line1", "line2", "line3",
               "nationality", "issuingState", "dateOfBirth", "dateOfExpiry", "sex",
               "primaryIdentifier", "secondaryIdentifier"}

\* get_code_type() of the documents the template reads.
CodeTypes == {"MRTD_TD1_ID", "MRTD_TD2_ID", "MRTD_TD3_PASSPORT", "MRTD_TD2_VISA",
              "MRTD_TD3_VISA"}

\* Fields an item carries in one behaviour.
MaxFields == 2

\* get_field_value(f) of a field the item carries: its raw characters.
Raw(f) == <<"raw", f>>

None == <<"None">>

\* A field the item does not carry: get_field_value gives None.
Absent == [value |-> None, status |-> "VS_NONE"]

Statuses == {"VS_NONE", "VS_SUCCEEDED", "VS_FAILED"}

NoResult == [none |-> TRUE]

\* The test mutated: the validation status is not looked at.
TakenAnyStatus(it, f) == it.fields[f].value # None

\* item.get_field_value(f) != None and
\* item.get_field_validation_status(f) != EnumValidationStatus.VS_FAILED
Taken(it, f) == it.fields[f].value # None /\ it.fields[f].status # "VS_FAILED"

\* self.x = None, then the guarded assignment of field f.
Attr(it, f) == IF Taken(it, f) THEN it.fields[f].value ELSE None

\* Lines 202-206: only a passport gets a doc_id, passportNumber first.
DocId(it) ==
    IF it.code_type = "MRTD_TD3_PASSPORT"
    THEN IF Taken(it, "passportNumber") THEN it.fields["passportNumber"].value
         ELSE IF Taken(it, "documentNumber") THEN it.fields["documentNumber"].value
         ELSE None
    ELSE None

\* Lines 208-222: a line the item carries is kept, marked when its status is
\* VS_FAILED (line += ", Validation Failed").
LineText(it, f) ==
    IF it.fields[f].value = None THEN <<>>
    ELSE << [text |-> it.fields[f].value, failed |-> it.fields[f].status = "VS_FAILED"] >>

RawText(it) == LineText(it, "line1") \o LineText(it, "line2") \o LineText(it, "line3")

MrzResult(it) ==
    [doc_type |-> it.code_type,
     raw_text |-> RawText(it),
     doc_id |-> DocId(it),
     surname |-> Attr(it, "primaryIdentifier"),
     given_name |-> Attr(it, "secondaryIdentifier"),
     nationality |-> Attr(it, "nationality"),
     issuer |-> Attr(it, "issuingState"),
     gender |-> Attr(it, "sex"),
     date_of_birth |-> Attr(it, "dateOfBirth"),
     date_of_expiry |-> Attr(it, "dateOfExpiry")]

Carried(it) == {f \in FieldNames : it.fields[f].value # None}

InitResult ==
    /\ \E t \in CodeTypes : item = [code_type |-> t, fields |-> [f \in FieldNames |-> Absent]]
    /\ mrz = NoResult

\* The SDK parses one more field into the item, with a validation status.
ParseField ==
    /\ mrz = NoResult
    /\ Cardinality(Carried(item)) < MaxFields
    /\ \E f \in FieldNames \ Carried(item), st \in Statuses :
          item' = [code_type |-> item.code_type,
                   fields |-> Upd(item.fields, f, [value |-> Raw(f), status |-> st])]
    /\ UNCHANGED mrz
    /\ UNCHANGED <<checkVars, poolVars, storeVars, guiVars, sigVars, restVars>>

\* MrzResult(item, location)
BuildResult ==
    /\ mrz = NoResult
    /\ mrz' = MrzResult(item)
    /\ UNCHANGED item
    /\ UNCHANGED <<checkVars, poolVars, storeVars, guiVars, sigVars, restVars>>

NextResult ==
    \/ ParseField
    \/ BuildResult

(***************************************************************************)
(* MrzScanner's asynchronous API, mrzscanner/__init__.py: addAsyncListener *)
(* 369-371, clearAsyncListener 400-403, decodeMatAsync 657,                *)
(* decodeBytesAsync 673-674, FrameFetcher.add_frame 86 and                 *)
(* MyCapturedResultReceiver 107-134.  The router is the SDK's: while it is *)
(* capturing it takes the frames of the fetcher's buffer one by one and    *)
(* hands the result of each to every result receiver registered at that    *)
(* moment; a frame it has taken is finished also when stop_capturing has   *)
(* been called meanwhile.                                                  *)
(***************************************************************************)

\* addAsyncListener calls in one behaviour.
MaxListeners == 2

\* Frames queued in one behaviour.
MaxQueued == 2

NoFrame == [id |-> 0, qadded |-> 0, fadded |-> 0]

\* Lines 400-402 mutated: the receiver is removed from the router and kept.
ReceiverAfterClearKept == receiver

\* self.receiver = None
ReceiverAfterClear == 0

\* Line 657 mutated: queueing a frame starts the capture.
CapturingAfterQueueStarted == TRUE

\* decodeMatAsync and decodeBytesAsync only add the frame to the buffer.
CapturingAfterQueue == capturing

\* cvr_instance.start_capturing on a router that is not capturing: what the
\* buffer holds then is the SDK's to keep or to drop; on one that is
\* capturing the call is refused and nothing changes.
BuffersAfterStart ==
    IF capturing THEN {buffer} ELSE {buffer, <<>>}

\* MyCapturedResultReceiver.on_captured_result_received of receiver r, for the
\* result of frame f: self.listener(output).
Invocation(r, f) ==
    [rcv |-> r, frame |-> f.id, qadded |-> f.qadded, fadded |-> f.fadded,
     late |-> r \in released]

\* The receivers registered on the router, in the order they were added.
ReceiverSeq == SelectSeq([i \in 1..nadded |-> i], LAMBDA i : i \in router_rcvs)

InitAsync ==
    /\ receiver = 0
    /\ router_rcvs = {}
    /\ capturing = FALSE
    /\ buffer = <<>>
    /\ inproc = NoFrame
    /\ invoked = <<>>
    /\ nadded = 0
    /\ nclears = 0
    /\ nqueued = 0
    /\ released = {}
    /\ last_op = "init"

\* addAsyncListener(listener): a new receiver is stored in self.receiver and
\* added to the router, whatever self.receiver held; start_capturing.
addAsyncListener ==
    /\ nadded < MaxListeners
    /\ nadded' = nadded + 1
    /\ receiver' = nadded + 1
    /\ router_rcvs' = router_rcvs \cup {nadded + 1}
    /\ capturing' = TRUE
    /\ buffer' \in BuffersAfterStart
    /\ last_op' = "add"
    /\ UNCHANGED <<inproc, invoked, nclears, nqueued, released>>
    /\ UNCHANGED <<checkVars, poolVars, storeVars, guiVars, sigVars, resultVars, raceVars, decVars, lateVars>>

\* clearAsyncListener(): self.receiver, when there is one, is removed from
\* the router and forgotten; stop_capturing.
clearAsyncListener ==
    /\ IF receiver # 0
       THEN /\ router_rcvs' = router_rcvs \ {receiver}
            /\ receiver' = ReceiverAfterClear
       ELSE UNCHANGED <<router_rcvs, receiver>>
    /\ capturing' = FALSE
    /\ released' = 1..nadded
    /\ nclears' = IF nclears < 2 THEN nclears + 1 ELSE 2
    /\ last_op' = "clear"
    /\ UNCHANGED <<buffer, inproc, invoked, nadded, nqueued>>
    /\ UNCHANGED <<checkVars, poolVars, storeVars, guiVars, sigVars, resultVars, raceVars, decVars, lateVars>>

\* self.fetcher.add_frame(imageData): add_image_to_buffer.
add_frame ==
    /\ nqueued < MaxQueued
    /\ nqueued' = nqueued + 1
    /\ buffer' = Append(buffer, [id |-> nqueued + 1, qadded |-> nadded, fadded |-> 0])
    /\ capturing' = CapturingAfterQueue
    /\ last_op' = "queue"
    /\ UNCHANGED <<receiver, router_rcvs, inproc, invoked, nadded, nclears, released>>
    /\ UNCHANGED <<checkVars, poolVars, storeVars, guiVars, sigVars, resultVars, raceVars, decVars, lateVars>>

\* decodeMatAsync(mat): self.fetcher.add_frame(convertMat2ImageData(mat)).
decodeMatAsync == add_frame

\* decodeBytesAsync(...): self.fetcher.add_frame(ImageData(...)).
decodeBytesAsync == add_frame

\* The router, capturing, takes the next frame of the buffer.
RouterFetch ==
    /\ capturing
    /\ buffer # <<>>
    /\ inproc = NoFrame
    /\ inproc' = [Head(buffer) EXCEPT !.fadded = nadded]
    /\ buffer' = Tail(buffer)
    /\ last_op' = "fetch"
    /\ UNCHANGED <<receiver, router_rcvs, capturing, invoked, nadded, nclears,
                   nqueued, released>>
    /\ UNCHANGED <<checkVars, poolVars, storeVars, guiVars, sigVars, resultVars, raceVars, decVars, lateVars>>

\* The router hands the result of the frame to every registered receiver.
RouterDeliver ==
    /\ inproc # NoFrame
    /\ invoked' = invoked \o [i \in 1..Len(ReceiverSeq) |-> Invocation(ReceiverSeq[i], inproc)]
    /\ inproc' = NoFrame
    /\ last_op' = "deliver"
    /\ UNCHANGED <<receiver, router_rcvs, capturing, buffer, nadded, nclears,
                   nqueued, released>>
    /\ UNCHANGED <<checkVars, poolVars, storeVars, guiVars, sigVars, resultVars, raceVars, decVars, lateVars>>

NextAsync ==
    \/ addAsyncListener
    \/ clearAsyncListener
    \/ decodeMatAsync
    \/ decodeBytesAsync
    \/ RouterFetch
    \/ RouterDeliver

(***************************************************************************)
(* The on_*_received callbacks as the router runs them.  The router calls  *)
(* them from its own worker threads while capture() is running; the        *)
(* receiver holds no lock, so the three statements of a callback (the      *)
(* existence check, the creation of the bundle, the assignment of the      *)
(* slot) of one thread interleave with those of another.  clear() and      *)
(* get_portrait_zone are called by the thread that called capture(),       *)
(* before and after it.                                                    *)
(***************************************************************************)

\* The router's threads that deliver intermediate results.
CbThreads == {"t1", "t2"}

\* Callbacks entered in one behaviour.
MaxCallbacks == 3

IdleCb == [pc |-> "idle", unit |-> NoUnit, missing |-> FALSE]

\* if info.is_section_level_result: (not asked by
\* on_scaled_colour_image_unit_received)
Stores(kind, section) == kind = "scaled_colour_img_unit" \/ section

AllCbIdle == \A t \in CbThreads : cb[t].pc = "idle"

InitRace ==
    /\ cb = [t \in CbThreads |-> IdleCb]
    /\ recorded = {}
    /\ ncb = 0

\* id = result.get_original_image_hash_id()
\* if self.unit_groups.get(id) is None:
CbCheck(t) ==
    /\ cb[t].pc = "idle"
    /\ ncb < MaxCallbacks
    /\ ncb' = ncb + 1
    /\ \E h \in Hashes, k \in Kinds, section \in BOOLEAN :
          LET u == Unit(h, k, 0, epoch["win"])
          IN cb' = IF Stores(k, section)
                   THEN Upd(cb, t, [pc |-> "checked", unit |-> u,
                                    missing |-> unit_groups["win"][h] = NoUnit])
                   ELSE cb
    /\ UNCHANGED <<recorded, dec_pc, dec_in, dec_i, dec_out>>
    /\ UNCHANGED storeVars
    /\ UNCHANGED <<checkVars, poolVars, guiVars, sigVars, resultVars, asyncVars, lateVars>>

\*     self.unit_groups[id] = NeededResultUnit()
CbCreate(t) ==
    /\ cb[t].pc = "checked"
    /\ cb' = Upd(cb, t, [cb[t] EXCEPT !.pc = "assign"])
    /\ unit_groups' = IF cb[t].missing
                      THEN Upd(unit_groups, "win",
                               Upd(unit_groups["win"], cb[t].unit.h, NeededResultUnit))
                      ELSE unit_groups
    /\ query' = NoQuery
    /\ UNCHANGED <<registered, epoch>>
    /\ UNCHANGED <<recorded, ncb, dec_pc, dec_in, dec_i, dec_out>>
    /\ UNCHANGED <<checkVars, poolVars, guiVars, sigVars, resultVars, asyncVars, lateVars>>

\* self.unit_groups[id].<kind> = result; a KeyError when the bundle is gone.
CbAssign(t) ==
    /\ cb[t].pc = "assign"
    /\ LET u == cb[t].unit
           g == unit_groups["win"][u.h]
       IN IF g = NoUnit
          THEN /\ cb' = Upd(cb, t, [cb[t] EXCEPT !.pc = "keyerror"])
               /\ UNCHANGED <<unit_groups, recorded>>
          ELSE /\ cb' = Upd(cb, t, IdleCb)
               /\ unit_groups' = Upd(unit_groups, "win",
                                     Upd(unit_groups["win"], u.h, Upd(g, u.kind, u)))
               /\ recorded' = recorded \cup {u}
    /\ query' = NoQuery
    /\ UNCHANGED <<registered, epoch>>
    /\ UNCHANGED <<ncb, dec_pc, dec_in, dec_i, dec_out>>
    /\ UNCHANGED <<checkVars, poolVars, guiVars, sigVars, resultVars, asyncVars, lateVars>>

\* clear() before a capture, get_portrait_zone after it: no callback runs.
ClearBeforeCapture == AllCbIdle /\ Clear

QueryAfterCapture == AllCbIdle /\ GetPortraitZone

NextRace ==
    \/ \E t \in CbThreads : CbCheck(t)
    \/ \E t \in CbThreads : CbCreate(t)
    \/ \E t \in CbThreads : CbAssign(t)
    \/ ClearBeforeCapture
    \/ QueryAfterCapture

(***************************************************************************)
(* MrzScanner.decode, mrzscanner/__init__.py 436-459, and                  *)
(* MyCapturedResultReceiver.on_captured_result_received, 109-134: the loop *)
(* that pairs the parsed items with the recognized text lines.  The        *)
(* captured result is the router's: its error code, the number of items of *)
(* its recognized-text-lines result and of its parsed result, either of    *)
(* which may be None.                                                      *)
(***************************************************************************)

\* Items a result of the router has at most.
MaxItems == 3

\* get_recognized_text_lines_result() / get_parsed_result(): None, or a
\* result with so many items.
NoItemsResult == [none |-> TRUE]

ItemCounts == {NoItemsResult} \cup {[n |-> k] : k \in 0..MaxItems}

\* items = []; if line_result is not None: items = line_result.get_items()
\* The items are numbered 1..n in the order the router gives them.
get_items(r) == IF r = NoItemsResult THEN <<>> ELSE [i \in 1..r.n |-> i]

NoCapturedResult == [fn |-> "none", ok |-> TRUE, items |-> <<>>, parsed_items |-> <<>>]

\* parsed_items[i] beside items[i]
PairedIndex(i) == i

\* The check mutated: the error code is not looked at.
AfterCaptureIgnoresCode(ok) == "loop"

\* if result.get_error_code() != EnumErrorCode.EC_OK: print(...) else: ...
\* Where decode goes after capture: to return output, or on to the lists.
AfterCapture(ok) == IF ok THEN "loop" ELSE "returned"

InitDecode ==
    /\ dec_pc = "idle"
    /\ dec_in = NoCapturedResult
    /\ dec_i = 0
    /\ dec_out = <<>>

\* decode(input) up to the loop: capture, the error-code check, the two
\* item lists.
decode ==
    /\ dec_pc \in {"idle", "returned", "raised"}
    /\ \E ok \in BOOLEAN, line_result \in ItemCounts, parsed_result \in ItemCounts :
          /\ dec_in' = [fn |-> "decode", ok |-> ok,
                        items |-> get_items(line_result),
                        parsed_items |-> get_items(parsed_result)]
          /\ dec_pc' = AfterCapture(ok)
    /\ dec_i' = 0
    /\ dec_out' = <<>>
    /\ UNCHANGED <<cb, recorded, ncb>>
    /\ UNCHANGED <<checkVars, poolVars, storeVars, guiVars, sigVars, resultVars, asyncVars, lateVars>>

\* on_captured_result_received(result) up to the loop; no error-code check.
on_captured_result_received ==
    /\ dec_pc \in {"idle", "returned", "raised"}
    /\ \E ok \in BOOLEAN, line_result \in ItemCounts, parsed_result \in ItemCounts :
          dec_in' = [fn |-> "receiver", ok |-> ok,
                     items |-> get_items(line_result),
                     parsed_items |-> get_items(parsed_result)]
    /\ dec_pc' = "loop"
    /\ dec_i' = 0
    /\ dec_out' = <<>>
    /\ UNCHANGED <<cb, recorded, ncb>>
    /\ UNCHANGED <<checkVars, poolVars, storeVars, guiVars, sigVars, resultVars, asyncVars, lateVars>>

\* for i in range(len(items)):
\*     mrz = MrzResult(parsed_items[i], items[i].get_location())
\*     output.append(mrz)
\* parsed_items[i] raises IndexError past the end of the list.
PairStep ==
    /\ dec_pc = "loop"
    /\ dec_i < Len(dec_in.items)
    /\ IF PairedIndex(dec_i) < Len(dec_in.parsed_items)
       THEN /\ dec_out' = Append(dec_out,
                                 [parsed |-> dec_in.parsed_items[PairedIndex(dec_i) + 1],
                                  location |-> dec_in.items[dec_i + 1]])
            /\ dec_i' = dec_i + 1
            /\ UNCHANGED dec_pc
       ELSE /\ dec_pc' = "raised"
            /\ UNCHANGED <<dec_i, dec_out>>
    /\ UNCHANGED dec_in
    /\ UNCHANGED <<cb, recorded, ncb>>
    /\ UNCHANGED <<checkVars, poolVars, storeVars, guiVars, sigVars, resultVars, asyncVars, lateVars>>

\* return output / self.listener(output)
PairEnd ==
    /\ dec_pc = "loop"
    /\ dec_i = Len(dec_in.items)
    /\ dec_pc' = "returned"
    /\ UNCHANGED <<dec_in, dec_i, dec_out>>
    /\ UNCHANGED <<cb, recorded, ncb>>
    /\ UNCHANGED <<checkVars, poolVars, storeVars, guiVars, sigVars, resultVars, asyncVars, lateVars>>

NextDecode ==
    \/ decode
    \/ on_captured_result_received
    \/ PairStep
    \/ PairEnd

(***************************************************************************)
(* A check digit of the Document Checker.  The checkers are the mrz        *)
(* library's (TD3CodeChecker and the others, called by check()); the       *)
(* algorithm is the specification's: the characters of the covered span    *)
(* are mapped to values, weighted cyclically by 7, 3, 1 and summed, and    *)
(* the sum modulo 10 is compared with the embedded check digit.            *)
(***************************************************************************)

\* Characters of a covered span.
MaxSpan == 3

Alphabet == <<"0", "1", "2", "3", "4", "5", "6", "7", "8", "9",
              "A", "B", "C", "D", "E", "F", "G", "H", "I", "J", "K", "L", "M",
              "N", "O", "P", "Q", "R", "S", "T", "U", "V", "W", "X", "Y", "Z">>

Digits == {Alphabet[i] : i \in 1..10}

\* The characters spans are made of here: the digits, two letters, the filler.
SpanChars == Digits \cup {"A", "Z", "<"}

Spans == UNION {[1..n -> SpanChars] : n \in 1..MaxSpan}

\* digits 0-9 -> themselves, letters A-Z -> 10-35, filler -> 0
CharValue(c) == IF c = "<" THEN 0 ELSE (CHOOSE i \in 1..Len(Alphabet) : Alphabet[i] = c) - 1

\* The weights mutated: the third weight shares a factor with 10.
WeightsThirdEven == <<7, 3, 2>>

\* weighted cyclically by {7,3,1}
Weights == <<7, 3, 1>>

Weight(i) == Weights[((i - 1) % Len(Weights)) + 1]

RECURSIVE WeightedSum(_, _)
\* The sum over the first n characters of the span.
WeightedSum(span, n) ==
    IF n = 0 THEN 0 ELSE WeightedSum(span, n - 1) + CharValue(span[n]) * Weight(n)

\* modulo 10
ComputedDigit(span) == WeightedSum(span, Len(span)) % 10

\* compared against the embedded check digit
ValidationStatus(span, d) == IF ComputedDigit(span) = d THEN "VALID" ELSE "FAILED"

\* The span with the character at position i replaced.
Replaced(span, i, c) == [j \in 1..Len(span) |-> IF j = i THEN c ELSE span[j]]

InitCk ==
    /\ ck_span = <<>>
    /\ ck_digit = 0
    /\ ck_status = "none"
    /\ ck_before = "none"

\* The recognizer reads a field and its check digit off the document: the
\* digit that fits the span, or one that does not.
ReadField ==
    /\ ck_span = <<>>
    /\ ck_span' \in Spans
    /\ ck_digit' \in {ComputedDigit(ck_span'), (ComputedDigit(ck_span') + 1) % 10}
    /\ UNCHANGED <<ck_status, ck_before>>
    /\ UNCHANGED <<earlyVars, mailVars, navVars>>

\* The checker validates the check digit.
ValidateCheckDigit ==
    /\ ck_span # <<>>
    /\ ck_status = "none"
    /\ ck_status' = ValidationStatus(ck_span, ck_digit)
    /\ UNCHANGED <<ck_span, ck_digit, ck_before>>
    /\ UNCHANGED <<earlyVars, mailVars, navVars>>

\* One digit of the span is misread as another digit, and the check digit
\* is validated again.
ReplaceDigit ==
    /\ ck_status # "none"
    /\ ck_before = "none"
    /\ \E i \in 1..Len(ck_span), d \in Digits :
          /\ ck_span[i] \in Digits
          /\ d # ck_span[i]
          /\ ck_span' = Replaced(ck_span, i, d)
    /\ ck_status' = ValidationStatus(ck_span', ck_digit)
    /\ ck_before' = ck_status
    /\ UNCHANGED ck_digit
    /\ UNCHANGED <<earlyVars, mailVars, navVars>>

NextCk ==
    \/ ReadField
    \/ ValidateCheckDigit
    \/ ReplaceDigit

(***************************************************************************)
(* The camera loop of examples/camera/app_async_api.py, 56-91: the         *)
(* listener given to addAsyncListener stores the list it is called with in *)
(* the global g_results, on the router's thread; the loop queues each      *)
(* frame with decodeMatAsync and looks at g_results.                       *)
(***************************************************************************)

\* cap.read() calls in one behaviour.
MaxMailFrames == 3

\* g_results = None
NoResults == [id |-> 0, n |-> 0]

\* The list of the k-th call of the listener, of n MrzResults.
ResultList(k, n) == [id |-> k, n |-> n]

\* The assignment mutated: a list not yet replaced is kept.
SlotAfterCallbackKeepsFirst(old, results) == IF old = NoResults THEN results ELSE old

\* global g_results; g_results = results
SlotAfterCallback(old, results) == results

InitMail ==
    /\ g_results = NoResults
    /\ mail_pc = "read"
    /\ mail_image = FALSE
    /\ mail_frames = 0
    /\ mail_queued = 0
    /\ mail_k = 0
    /\ mail_log = <<>>

\* callback(results), called by the receiver for a frame that was queued.
callback ==
    /\ mail_k < mail_queued
    /\ mail_k' = mail_k + 1
    /\ \E n \in 0..1 : g_results' = SlotAfterCallback(g_results, ResultList(mail_k + 1, n))
    /\ UNCHANGED <<mail_pc, mail_image, mail_frames, mail_queued, mail_log>>
    /\ UNCHANGED <<earlyVars, ckVars, navVars>>

\* ret, image = cap.read()
\* if image is not None: scanner.decodeMatAsync(image)
MailRead ==
    /\ mail_pc = "read"
    /\ mail_frames < MaxMailFrames
    /\ mail_frames' = mail_frames + 1
    /\ \E ok \in BOOLEAN :
          /\ mail_image' = ok
          /\ mail_queued' = IF ok THEN mail_queued + 1 ELSE mail_queued
    /\ mail_pc' = "test"
    /\ UNCHANGED <<g_results, mail_k, mail_log>>
    /\ UNCHANGED <<earlyVars, ckVars, navVars>>

\* if g_results != None:
MailTest ==
    /\ mail_pc = "test"
    /\ mail_pc' = IF g_results # NoResults THEN "take" ELSE "show"
    /\ UNCHANGED <<g_results, mail_image, mail_frames, mail_queued, mail_k, mail_log>>
    /\ UNCHANGED <<earlyVars, ckVars, navVars>>

\* for result in g_results: s += result.text ...; print(check(s[:-1]))
\* The global is read once more, for the list to iterate over; MrzResult has
\* no text, so a list that is not empty raises AttributeError, which ends the
\* program.
MailTake ==
    /\ mail_pc = "take"
    /\ mail_log' = Append(mail_log, g_results.id)
    /\ mail_pc' = IF g_results.n > 0 THEN "crashed" ELSE "show"
    /\ UNCHANGED <<g_results, mail_image, mail_frames, mail_queued, mail_k>>
    /\ UNCHANGED <<earlyVars, ckVars, navVars>>

\* cv2.imshow('MRZ Scanner', image), which raises on None; ch = cv2.waitKey(1);
\* if ch == 27: break
MailShow ==
    /\ mail_pc = "show"
    /\ IF ~mail_image
       THEN mail_pc' = "crashed"
       ELSE \E esc \in BOOLEAN : mail_pc' = IF esc THEN "done" ELSE "read"
    /\ UNCHANGED <<g_results, mail_image, mail_frames, mail_queued, mail_k, mail_log>>
    /\ UNCHANGED <<earlyVars, ckVars, navVars>>

NextMail ==
    \/ callback
    \/ MailRead
    \/ MailTest
    \/ MailTake
    \/ MailShow

(***************************************************************************)
(* The file list of MRZScannerWindow, mrz_scanner_gui.py 482-483 and       *)
(* 779-817: file_list, current_file_index, and the handlers that move      *)
(* through the list.  The files of a list are told apart by their index;   *)
(* the list widget shows the files of file_list, row i for index i.        *)
(***************************************************************************)

\* Files in a loaded list.
MaxFiles == 3

\* Operations on the list in one behaviour.
MaxNavOps == 5

\* No file was processed by the operation.
NoFile == -1

\* The guard mutated: next is allowed on the last file.
NextAllowedOnLast(index, n) == index < n

\* if self.current_file_index < len(self.file_list) - 1:
NextAllowed(index, n) == index < n - 1

\* if self.current_file_index > 0:
PrevAllowed(index) == index > 0

\* self.file_list = []; self.current_file_index = 0
InitNav ==
    /\ file_list = 0
    /\ current_file_index = 0
    /\ nav_ops = 0
    /\ nav_last = [op |-> "none", from |-> 0, processed |-> NoFile]

\* _load_file_list(files): the list is replaced, the index is 0 and the
\* first file, if there is one, is processed.
load_file_list ==
    /\ nav_ops < MaxNavOps
    /\ nav_ops' = nav_ops + 1
    /\ \E n \in 0..MaxFiles :
          /\ file_list' = n
          /\ nav_last' = [op |-> "load", from |-> current_file_index,
                          processed |-> IF n > 0 THEN 0 ELSE NoFile]
    /\ current_file_index' = 0
    /\ UNCHANGED <<earlyVars, ckVars, mailVars>>

\* _on_file_selected(item): index is the row of an item of the widget.
on_file_selected ==
    /\ nav_ops < MaxNavOps
    /\ nav_ops' = nav_ops + 1
    /\ \E index \in 0..(file_list - 1) :
          IF 0 <= index /\ index < file_list
          THEN /\ current_file_index' = index
               /\ nav_last' = [op |-> "select", from |-> current_file_index,
                               processed |-> index]
          ELSE /\ nav_last' = [op |-> "select", from |-> current_file_index,
                               processed |-> NoFile]
               /\ UNCHANGED current_file_index
    /\ UNCHANGED file_list
    /\ UNCHANGED <<earlyVars, ckVars, mailVars>>

\* _on_prev_clicked
on_prev_clicked ==
    /\ nav_ops < MaxNavOps
    /\ nav_ops' = nav_ops + 1
    /\ IF PrevAllowed(current_file_index)
       THEN /\ current_file_index' = current_file_index - 1
            /\ nav_last' = [op |-> "prev", from |-> current_file_index,
                            processed |-> current_file_index - 1]
       ELSE /\ nav_last' = [op |-> "prev", from |-> current_file_index,
                            processed |-> NoFile]
            /\ UNCHANGED current_file_index
    /\ UNCHANGED file_list
    /\ UNCHANGED <<earlyVars, ckVars, mailVars>>

\* _on_next_clicked
on_next_clicked ==
    /\ nav_ops < MaxNavOps
    /\ nav_ops' = nav_ops + 1
    /\ IF NextAllowed(current_file_index, file_list)
       THEN /\ current_file_index' = current_file_index + 1
            /\ nav_last' = [op |-> "next", from |-> current_file_index,
                            processed |-> current_file_index + 1]
       ELSE /\ nav_last' = [op |-> "next", from |-> current_file_index,
                            processed |-> NoFile]
            /\ UNCHANGED current_file_index
    /\ UNCHANGED file_list
    /\ UNCHANGED <<earlyVars, ckVars, mailVars>>

NextNav ==
    \/ load_file_list
    \/ on_file_selected
    \/ on_prev_clicked
    \/ on_next_clicked

(***************************************************************************)
(* The specifications: one per part of the program.                        *)
(***************************************************************************)

\* The state after construction of every part; threadn as line 89 sets it and
\* a passport as the item, where the part is not the one that moves.
InitAll ==
    /\ InitCheck
    /\ InitPool
    /\ InitStore
    /\ InitGui
    /\ InitResult
    /\ InitAsync
    /\ InitRace
    /\ InitDecode
    /\ InitCk
    /\ InitMail
    /\ InitNav

InitQuiet == InitAll /\ threadn = 1 /\ item.code_type = "MRTD_TD3_PASSPORT"

InitSpecPool == InitAll /\ item.code_type = "MRTD_TD3_PASSPORT"

InitSpecResult == InitAll /\ threadn = 1

SpecCheck == InitQuiet /\ [][NextCheck]_vars

SpecShape == InitQuiet /\ [][NextShape]_vars

SpecPool == InitSpecPool /\ [][NextPool]_vars

SpecStore == InitQuiet /\ [][NextStore]_vars

SpecGui == InitQuiet /\ [][NextGui]_vars

\* The two capture loops: the thread-pool loop of examples/camera/app.py and
\* CameraCaptureThread of the GUI.
NextLoops ==
    \/ NextPool
    \/ NextCam

SpecLoops == InitQuiet /\ [][NextLoops]_vars

SpecCam == InitQuiet /\ [][NextCamWin]_vars

SpecAsync == InitQuiet /\ [][NextAsync]_vars

SpecRace == InitQuiet /\ [][NextRace]_vars

SpecDecode == InitQuiet /\ [][NextDecode]_vars

SpecCk == InitQuiet /\ [][NextCk]_vars

SpecMail == InitQuiet /\ [][NextMail]_vars

SpecNav == InitQuiet /\ [][NextNav]_vars

SpecResult == InitSpecResult /\ [][NextResult]_vars

(***************************************************************************)
(* The claims.                                                             *)
(***************************************************************************)

\* The order the specification gives the cascade.
FixedOrder == <<"TD1", "TD2", "TD3", "MRVA", "MRVB">>

Rejects == {"reject", "raise"}

\* C1: check(lines) consults the checkers in the order TD1, TD2, TD3, MRVA,
\* MRVB; no checker is consulted after one that matched; a returned match is
\* the tag and fields of the first checker the library answers "match" for,
\* all earlier ones having rejected or raised; and the no-match value is
\* returned only when all five rejected or raised.
C1_FirstMatchInFixedOrder ==
    /\ Len(consulted) <= 5
    /\ \A i \in 1..Len(consulted) : consulted[i] = FixedOrder[i]
    /\ \A i \in 1..(Len(consulted) - 1) : lib[chk_lines][consulted[i]] \in Rejects
    /\ (chk_pc = "idle" /\ chk_ret # NoReturn) =>
          \/ \E j \in 1..5 :
                /\ chk_ret = [tag |-> FixedOrder[j], fields |-> <<FixedOrder[j], chk_lines>>]
                /\ lib[chk_lines][FixedOrder[j]] = "match"
                /\ \A i \in 1..(j - 1) : lib[chk_lines][FixedOrder[i]] \in Rejects
                /\ Len(consulted) = j
          \/ /\ chk_ret = NoMatch
             /\ \A j \in 1..5 : lib[chk_lines][FixedOrder[j]] \in Rejects
             /\ Len(consulted) = 5

\* C1's case: TD3 is returned after TD1 raised and TD2 rejected, MRVA and
\* MRVB never constructed.
C1_Witness ==
    /\ chk_pc = "idle"
    /\ chk_ret = [tag |-> "TD3", fields |-> <<"TD3", chk_lines>>]
    /\ lib[chk_lines]["TD1"] = "raise"
    /\ lib[chk_lines]["TD2"] = "reject"
    /\ consulted = <<"TD1", "TD2", "TD3">>

\* C2: no exception of a checker leaves check(): the call never ends raised,
\* what it returns is a match of one of the five checkers or the no-match
\* value, and after a checker that raised the next try block is reached (the
\* next checker has been consulted, or the call stands at it; after the
\* fifth, at the final return).
C2_FailuresNeverPropagate ==
    /\ chk_pc # "raised"
    /\ (chk_pc = "idle" /\ chk_ret # NoReturn) =>
          (chk_ret = NoMatch \/ chk_ret.tag \in Checkers)
    /\ \A i \in 1..Len(consulted) :
          lib[chk_lines][consulted[i]] = "raise" =>
             \/ Len(consulted) > i
             \/ chk_pc = "run" /\ chk_k = i + 1
             \/ chk_pc = "idle" /\ i = 5 /\ chk_ret = NoMatch

\* C2's case: TD1, TD2 and TD3 all raised and MRVA's match is returned.
C2_Witness ==
    /\ chk_pc = "idle"
    /\ chk_ret.tag = "MRVA"
    /\ \A c \in {"TD1", "TD2", "TD3"} : lib[chk_lines][c] = "raise"

Decided == loop_pc \in {"show", "read", "done", "crashed"}

\* C4: with threadn = 1 and no process_frame call ever completing, once the
\* N >= 1 captured frames have passed the submit decision exactly one was
\* submitted and N - 1 were dropped, and the deque never holds more than
\* one task.
C4_Backpressure ==
    (threadn = 1 /\ completed = 0) =>
        /\ Len(mrzTasks) <= 1
        /\ submitted <= 1
        /\ (Decided /\ captured >= 1) => (submitted = 1 /\ dropped = captured - 1)

\* C4's case: three frames captured, none completed: one in the deque, two
\* dropped.
C4_Witness ==
    /\ threadn = 1
    /\ completed = 0
    /\ loop_pc = "read"
    /\ captured = 3
    /\ submitted = 1
    /\ dropped = 2

\* Frames submitted and not yet drained.
InFlight == submitted - Len(drained)

\* C5: the number of submitted-but-not-yet-drained frames never exceeds
\* threadn (and is the length of the deque), and a step that submits a frame
\* starts from a state where that number is strictly below threadn.
C5_InFlightWithinBound ==
    /\ [](InFlight <= threadn /\ Len(mrzTasks) = InFlight)
    /\ [][submitted' # submitted => InFlight < threadn]_vars

\* C5's case: both slots of a bound of 2 are taken and a frame was dropped
\* for it.
C5_Witness ==
    /\ threadn = 2
    /\ InFlight = 2
    /\ dropped >= 1
    /\ Len(drained) >= 1

\* C6: the units get_portrait_zone(H) hands to find_portrait_zone all carry
\* hash H and were all recorded after the receiver's last clear().
C6_CorrelationIsolation ==
    query.called =>
        \A k \in Kinds :
           query.args[k] # NoUnit =>
              /\ query.args[k].h = query.hash
              /\ query.args[k].at = epoch[query.rcv]

\* C6's case: after a clear(), with a bundle recorded under the other hash
\* too, a query hands units of its own hash to the finder.
C6_Witness ==
    /\ query.called
    /\ epoch[query.rcv] >= 1
    /\ \E k \in Kinds : query.args[k] # NoUnit
    /\ \E h \in Hashes : h # query.hash /\ unit_groups[query.rcv][h] # NoUnit

\* The units a receiver holds, and the captures they came from.
UnitsOf(r) ==
    {unit_groups[r][h][k] : h \in Keys(unit_groups[r]), k \in Kinds} \ {NoUnit}

FramesOf(r) == {u.fid : u \in UnitsOf(r)}

\* C7: every receiver registered on the intermediate result manager holds
\* units of at most one frame or image at any time (each store is cleared
\* when the processing of a new frame, image or page starts).
C7_OneFramePerReceiver ==
    \A r \in registered : Cardinality(FramesOf(r)) <= 1

\* A slot of a store, None when the hash has no bundle.
Slot(ug, h, k) == IF ug[h] = NoUnit THEN NoUnit ELSE ug[h][k]

NamedFields == {"passportNumber", "documentNumber", "primaryIdentifier",
                "secondaryIdentifier", "nationality", "issuingState", "sex",
                "dateOfBirth", "dateOfExpiry"}

AttrOf(m, f) ==
    CASE f \in {"passportNumber", "documentNumber"} -> m.doc_id
      [] f = "primaryIdentifier" -> m.surname
      [] f = "secondaryIdentifier" -> m.given_name
      [] f = "nationality" -> m.nationality
      [] f = "issuingState" -> m.issuer
      [] f = "sex" -> m.gender
      [] f = "dateOfBirth" -> m.date_of_birth
      [] f = "dateOfExpiry" -> m.date_of_expiry

Failed(f) == item.fields[f].value # None /\ item.fields[f].status = "VS_FAILED"

\* C10 as stated: the MrzResult attribute of a field whose status is FAILED
\* holds the field's raw value.
C10_FailedFieldSurfaced ==
    mrz # NoResult =>
        \A f \in NamedFields : Failed(f) => AttrOf(mrz, f) = item.fields[f].value

\* C10 amended: the attribute of a field whose status is FAILED is never
\* taken from that field: it is None, doc_id apart, which is the value of
\* the other number field when the item is a passport and that field is
\* carried and not FAILED, and None otherwise; the raw characters surface
\* through raw_text alone, which keeps every line the item carries, in
\* order, marked when the line's status is FAILED.
C10_FailedFieldIsNone ==
    mrz # NoResult =>
        /\ \A f \in NamedFields :
              Failed(f) =>
                 /\ AttrOf(mrz, f) # item.fields[f].value
                 /\ f \notin {"passportNumber", "documentNumber"} => AttrOf(mrz, f) = None
        /\ (Failed("passportNumber") /\ mrz.doc_id # None) =>
              /\ item.code_type = "MRTD_TD3_PASSPORT"
              /\ ~Failed("documentNumber")
              /\ mrz.doc_id = item.fields["documentNumber"].value
        /\ (Failed("documentNumber") /\ mrz.doc_id # None) =>
              /\ item.code_type = "MRTD_TD3_PASSPORT"
              /\ ~Failed("passportNumber")
              /\ mrz.doc_id = item.fields["passportNumber"].value
        /\ Len(mrz.raw_text) = Cardinality(Carried(item) \cap {"line1", "line2", "line3"})
        /\ \A f \in {"line1", "line2", "line3"} :
              item.fields[f].value # None =>
                 \E i \in 1..Len(mrz.raw_text) :
                    /\ mrz.raw_text[i].text = item.fields[f].value
                    /\ mrz.raw_text[i].failed = (item.fields[f].status = "VS_FAILED")

\* C10's case: a result built from an item with a FAILED nationality and a
\* FAILED line.
C10_Witness ==
    /\ mrz # NoResult
    /\ Failed("nationality")
    /\ item.fields["line1"].value # None
    /\ item.fields["line1"].status = "VS_FAILED"

\* C11: no listener that was added before a clearAsyncListener() call
\* returned is invoked after that call, also not for a frame queued before
\* the call that the router is still working on.
C11_NoInvocationAfterClear ==
    \A i \in 1..Len(invoked) : ~invoked[i].late

\* C12: at most one result receiver is registered on the router at any
\* time, and none after a clearAsyncListener().
C12_OneReceiverAtMost ==
    /\ Cardinality(router_rcvs) <= 1
    /\ last_op = "clear" => router_rcvs = {}

\* The scanner as clearAsyncListener leaves it.
ScannerState == <<receiver, router_rcvs, capturing, buffer, inproc, invoked>>

Pops == loop_pc = "drain" /\ drained' # drained

\* C15: a process_frame call whose decodeMat raised reports the error once
\* and returns None; when the loop pops that task it does not leave the
\* loop, the task's slot is free again (the next frame can be submitted),
\* and it goes on with the iteration.  In CameraCaptureThread a capture that
\* ends, raised or not, takes the thread back to the top of its loop.
C15_FailureNotFatal ==
    /\ [][\A i \in 1..Len(mrzTasks) :
             (Len(mrzTasks') = Len(mrzTasks) /\ ~mrzTasks[i].err /\ mrzTasks'[i].err) =>
                (reported' = reported + 1 /\ mrzTasks'[i].res = "None")]_vars
    /\ [][(Pops /\ mrzTasks[1].err) =>
             /\ loop_pc' = "drain"
             /\ mrzTasks' = Tail(mrzTasks)
             /\ Len(mrzTasks') < threadn]_vars
    /\ [][(cam_pc = "capture" /\ cam_pc' # "capture") =>
             (cam_pc' = "loop" /\ cur' = NoCapture)]_vars

\* C15's case: the first frame's recognition failed, the task was popped and
\* a later frame was submitted in its place.
C15_Witness ==
    /\ completed = 1
    /\ reported = 1
    /\ Len(drained) = 1
    /\ submitted = 2
    /\ Len(mrzTasks) = 1
    /\ loop_pc = "read"

\* C16: a CameraCaptureThread whose camera did not open has emitted
\* error_occurred exactly once (and a thread whose camera opened never), has
\* read no frame, has no capture running, has no receiver registered and
\* has returned; no thread is started by the handling of the error or by the
\* thread itself.  The loop of examples/camera/app.py, its camera not
\* opened, has read and submitted nothing and stays ended.
C16_OpenFailureFatalOnce ==
    /\ [](emitted <= 1)
    /\ [](cam_open = "failed" =>
             /\ emitted = 1
             /\ ~cam_read
             /\ cur = NoCapture
             /\ "cam" \notin registered
             /\ cam_pc \in {"ended", "off"})
    /\ [](cam_open # "failed" => emitted = 0)
    /\ [][err_pending' > err_pending =>
             (err_pending' = err_pending + 1 /\ cam_open = "unknown" /\ cam_open' = "failed")]_vars
    /\ [][(cam_pc' = "start" /\ cam_pc # "start") =>
             (err_pending' = err_pending /\ win_pc = "idle" /\ win_pc' = "idle")]_vars
    /\ [](loop_pc = "noopen" =>
             (captured = 0 /\ submitted = 0 /\ mrzTasks = <<>> /\ frame = 0))
    /\ [][loop_pc = "noopen" => loop_pc' = "noopen"]_vars

\* C16's case: both cameras failed to open; the window has handled the
\* error and joined the thread.
C16_Witness ==
    /\ cam_open = "failed"
    /\ err_pending = 0
    /\ cam_pc = "off"
    /\ win_pc = "idle"
    /\ loop_pc = "noopen"

\* A recognition call is running: in the pool, in the capture thread.
PoolRecognizing == \E i \in 1..Len(mrzTasks) : ~mrzTasks[i].ready

CamRecognizing == cam_pc = "capture"

\* The steps of the thread-pool loop itself, and those of the capture
\* thread other than the return of cvr.capture.
PoolLoopStep == Read \/ DrainOne \/ DrainEnd \/ Submit \/ Show

CamLoopStep == CamFrame \/ CamExit

PoolLoopLive == loop_pc \in {"read", "drain", "submit", "show"} /\ captured < MaxFrames

\* C17 as stated: while a recognition call is running each of the two loops
\* can take its next step towards the next frame read.
C17_NeverBlocksOnRecognizer ==
    /\ (PoolRecognizing /\ PoolLoopLive) => ENABLED PoolLoopStep
    /\ (CamRecognizing /\ nframes < MaxImages) => ENABLED CamLoopStep

\* C18: while stop() waits for the thread, the thread does not start on
\* another frame: it ends after the capture that is running, if any.
C18_StopStopsAcquiring ==
    [][(win_pc = "stopping" /\ win_pc' = "stopping") =>
          /\ nframes' = nframes
          /\ cam_pc' \in {cam_pc, "loop", "ended"}
          /\ cam_pc = "loop" => cam_pc' \in {"loop", "ended"}]_vars

\* C19: every unit whose callback has returned since the last clear() is in
\* its slot of the bundle of its hash: no record is lost to another
\* callback's get-or-create, and no callback finds its bundle gone.
C19_NoRecordLost ==
    /\ \A t \in CbThreads : cb[t].pc # "keyerror"
    /\ \A u \in recorded :
          u.at = epoch["win"] =>
             /\ unit_groups["win"][u.h] # NoUnit
             /\ unit_groups["win"][u.h][u.kind] # NoUnit

\* C20: decode and the receiver's callback do not raise, and what they
\* return for a result without error has one MrzResult for each recognized
\* line, the i-th made of the i-th parsed item and the i-th line's location.
C20_OneResultPerRegion ==
    /\ dec_pc # "raised"
    /\ (dec_pc = "returned" /\ (dec_in.ok \/ dec_in.fn = "receiver")) =>
          /\ Len(dec_out) = Len(dec_in.items)
          /\ \A i \in 1..Len(dec_out) : dec_out[i] = [parsed |-> i, location |-> i]

\* C21: a decode whose capture ended with an error code other than EC_OK
\* has returned the empty list, without entering the loop that builds
\* MrzResults; a decode whose capture recognized no text line builds none
\* and does not raise.
C21_ErrorOrNothingGivesEmptyList ==
    /\ (dec_in.fn = "decode" /\ ~dec_in.ok) =>
          (dec_pc = "returned" /\ dec_out = <<>> /\ dec_i = 0)
    /\ (dec_in.fn = "decode" /\ dec_in.ok /\ Len(dec_in.items) = 0) =>
          (dec_pc \in {"loop", "returned"} /\ dec_out = <<>>)

\* C21's case: a capture that failed although it came with recognized
\* lines and parsed items; decode has returned.
C21_Witness ==
    /\ dec_in.fn = "decode"
    /\ ~dec_in.ok
    /\ Len(dec_in.items) > 0
    /\ Len(dec_in.parsed_items) > 0
    /\ dec_pc = "returned"

\* C22: the doc_id of a built MrzResult is the document number the item
\* carries with a status other than FAILED, whatever the document type; for
\* a passport passportNumber comes first and documentNumber is the fallback.
C22_DocIdForEveryType ==
    mrz # NoResult =>
       /\ (item.code_type = "MRTD_TD3_PASSPORT" /\ Taken(item, "passportNumber")) =>
             mrz.doc_id = item.fields["passportNumber"].value
       /\ (item.code_type = "MRTD_TD3_PASSPORT" /\ ~Taken(item, "passportNumber")
              /\ Taken(item, "documentNumber")) =>
             mrz.doc_id = item.fields["documentNumber"].value
       /\ (item.code_type # "MRTD_TD3_PASSPORT" /\ Taken(item, "documentNumber")) =>
             mrz.doc_id = item.fields["documentNumber"].value

\* C23: on lines of 3x30 no checker but TD1's has matched, and every call
\* of check() on them has returned TD1's match or no match.
C23_ThreeByThirtyOnlyTD1 ==
    /\ \A c \in Checkers \ {"TD1"} : lib["3x30"][c] # "match"
    /\ \A i \in 1..Len(chk_log) :
          chk_log[i].lines = "3x30" =>
             \/ chk_log[i].ret = [tag |-> "TD1", fields |-> <<"TD1", "3x30">>] /\ lib["3x30"]["TD1"] = "match"
             \/ chk_log[i].ret = NoMatch /\ lib["3x30"]["TD1"] # "match"

\* C23's case: check() has returned TD1's match on 3x30 lines, and no match
\* on other lines after all five checkers were tried.
C23_Witness ==
    \E i, j \in 1..Len(chk_log) :
       /\ chk_log[i].lines = "3x30"
       /\ chk_log[i].ret.tag = "TD1"
       /\ chk_log[j].lines = "2x44"
       /\ chk_log[j].ret = NoMatch

\* C24: on lines of 2x44 the TD3 and MRVA checkers have not both matched;
\* every call of check() on them has returned one result: TD3's match when
\* TD3 matches, MRVA's when TD3 does not and MRVA does, no match otherwise.
C24_TwoByFortyFourOneResult ==
    /\ ~(lib["2x44"]["TD3"] = "match" /\ lib["2x44"]["MRVA"] = "match")
    /\ \A i \in 1..Len(chk_log) :
          chk_log[i].lines = "2x44" =>
             \/ chk_log[i].ret = [tag |-> "TD3", fields |-> <<"TD3", "2x44">>] /\ lib["2x44"]["TD3"] = "match"
             \/ /\ chk_log[i].ret = [tag |-> "MRVA", fields |-> <<"MRVA", "2x44">>]
                /\ lib["2x44"]["TD3"] \in {"reject", "raise"}
                /\ lib["2x44"]["MRVA"] = "match"
             \/ /\ chk_log[i].ret = NoMatch
                /\ \A c \in Checkers : lib["2x44"][c] \in {"reject", "raise"}

\* C24's case: check() was called twice on 2x44 lines that TD3 matches and
\* returned TD3's match both times.
C24_Witness ==
    /\ Len(chk_log) >= 2
    /\ chk_log[1].lines = "2x44"
    /\ chk_log[2].lines = "2x44"
    /\ chk_log[1].ret.tag = "TD3"
    /\ chk_log[2].ret.tag = "TD3"

\* C25: a check digit that was VALID is FAILED after one digit of its
\* covered span was replaced by a different digit.
C25_DigitFlipFails == ck_before = "VALID" => ck_status = "FAILED"

\* C25's case: a span of three characters with a letter in it, whose check
\* digit was VALID before the third character, a digit, was replaced.
C25_Witness ==
    /\ ck_before = "VALID"
    /\ Len(ck_span) = 3
    /\ ck_span[1] = "Z"
    /\ ck_span[3] \in Digits
    /\ ck_status = "FAILED"

\* C27: g_results holds the list of the listener's last call; the list the
\* loop takes is the one of the last call made so far, and the loop never
\* takes a list older than one it took before.
C27_LatestResultOnly ==
    /\ [](g_results.id = mail_k)
    /\ [][mail_log' # mail_log =>
             mail_log' = Append(mail_log, mail_k) /\ mail_k > 0]_vars
    /\ [](\A i, j \in 1..Len(mail_log) : i <= j => mail_log[i] <= mail_log[j])

\* C27's case: the loop took the first list and then the third; the second
\* was replaced before the loop looked.
C27_Witness ==
    /\ Len(mail_log) = 2
    /\ mail_log[1] = 1
    /\ mail_log[2] = 3
    /\ mail_k = 3

\* C30: with a file list that is not empty current_file_index is an index
\* of it; previous on the first file and next on the last leave the index
\* where it was and process no file, and a file that is processed is the
\* one at the index.
C30_IndexStaysValid ==
    /\ file_list > 0 => (0 <= current_file_index /\ current_file_index < file_list)
    /\ (nav_last.op = "prev" /\ nav_last.from = 0) =>
          (current_file_index = 0 /\ nav_last.processed = NoFile)
    /\ (nav_last.op = "next" /\ file_list > 0 /\ nav_last.from = file_list - 1) =>
          (current_file_index = file_list - 1 /\ nav_last.processed = NoFile)
    /\ nav_last.processed # NoFile => nav_last.processed = current_file_index

\* C30's case: in a list of three files, next was clicked on the last one.
C30_Witness ==
    /\ file_list = 3
    /\ nav_last = [op |-> "next", from |-> 2, processed |-> NoFile]
    /\ current_file_index = 2

\* The tasks are numbered by their frames, in submission order.
InSubmissionOrder(ids) == \A i, j \in 1..Len(ids) : i < j => ids[i] < ids[j]

\* C28 as stated: tasks are consumed in submission order, none while an
\* earlier one is pending, and when the loop has ended every submitted task
\* was consumed exactly once.
C28_DrainedInOrderExactlyOnce ==
    /\ InSubmissionOrder(drained)
    /\ \A i \in 1..Len(drained), j \in 1..Len(mrzTasks) : drained[i] < mrzTasks[j].id
    /\ loop_pc = "done" => Len(drained) = submitted

\* C28 amended: tasks are consumed in submission order and only when
\* ready, none while an earlier one is in the deque, and none twice; a
\* submitted task was consumed or is still in the deque, and those in the
\* deque when the loop has ended stay there.
C28_DrainedInOrderAtMostOnce ==
    /\ [](InSubmissionOrder(drained))
    /\ [](\A i \in 1..Len(drained), j \in 1..Len(mrzTasks) : drained[i] < mrzTasks[j].id)
    /\ [](InSubmissionOrder([j \in 1..Len(mrzTasks) |-> mrzTasks[j].id]))
    /\ [](Len(drained) + Len(mrzTasks) = submitted)
    /\ [][drained' # drained =>
             /\ mrzTasks[1].ready
             /\ drained' = Append(drained, mrzTasks[1].id)
             /\ mrzTasks' = Tail(mrzTasks)]_vars
    /\ [][(loop_pc \in {"done", "crashed", "noopen"}) => (drained' = drained)]_vars

\* C28's case: one task was consumed; of the two in the deque the later one
\* has finished and the earlier one has not, and the loop has passed them.
C28_Witness ==
    /\ Len(drained) = 1
    /\ Len(mrzTasks) = 2
    /\ ~mrzTasks[1].ready
    /\ mrzTasks[2].ready
    /\ loop_pc = "show"

====
